---- MODULE Spec2Model ----
(***************************************************************************)
(* Model of the NOPE Node SDK: the webhook utilities (Webhook.verify and    *)
(* Webhook.sign) and the API client (NopeClient).  Strings are sequences   *)
(* of one-character strings; an optional string (string | undefined) is a  *)
(* record [def, s].                                                        *)
(*                                                                         *)
(* now is Date.now(), call the webhook call being made, log the history of *)
(* the deliveries verified so far, client the fields of a NopeClient, ops  *)
(* its evaluate / screen operations and summary a list of risks with what  *)
(* the summary helpers give for it.                                        *)
(***************************************************************************)
EXTENDS Integers, Sequences, FiniteSets

VARIABLES now, call, log, client, ops, summary

vars == <<now, call, log, client, ops, summary>>

(***************************************************************************)
(* Bounds of the exploration.                                              *)
(***************************************************************************)
\* Date.now() starts at Now0 milliseconds and advances MaxTicks times by TickMs
MaxTicks == 2

Now0 == 1000500

TickMs == 1000

(***************************************************************************)
(* Strings.                                                                *)
(***************************************************************************)
Undefined == [def |-> FALSE, s |-> <<>>]

Str(s) == [def |-> TRUE, s |-> s]

\* a presence test that takes the empty string for a present value
Truthy_Defined(o) == o.def

\* JavaScript truthiness of a string | undefined value
Truthy(o) == o.def /\ Len(o.s) > 0

Digits == <<"0", "1", "2", "3", "4", "5", "6", "7", "8", "9">>

IsDigit(c) == \E i \in 1..10 : Digits[i] = c

DigitVal(c) == (CHOOSE i \in 1..10 : Digits[i] = c) - 1

RECURSIVE NatToString(_)
NatToString(n) ==
  IF n < 10 THEN <<Digits[n + 1]>>
  ELSE NatToString(n \div 10) \o <<Digits[(n % 10) + 1]>>

\* String(ts) / `${ts}` for an integer ts
String(n) == IF n < 0 THEN <<"-">> \o NatToString(-n) ELSE NatToString(n)

RECURSIVE DigitsEnd(_, _)
\* index just past the longest run of digits of s that starts at i
DigitsEnd(s, i) ==
  IF i <= Len(s) /\ IsDigit(s[i]) THEN DigitsEnd(s, i + 1) ELSE i

RECURSIVE SkipWs(_, _)
SkipWs(s, i) ==
  IF i <= Len(s) /\ s[i] = " " THEN SkipWs(s, i + 1) ELSE i

RECURSIVE DigitsToNat(_, _)
DigitsToNat(s, acc) ==
  IF s = <<>> THEN acc ELSE DigitsToNat(Tail(s), 10 * acc + DigitVal(Head(s)))

\* parseInt(s, 10): leading white space is skipped, one sign is allowed, the
\* longest run of digits is read and whatever follows it is ignored; NaN when
\* there is no digit to read
parseInt(s) ==
  LET i == SkipWs(s, 1)
      neg == i <= Len(s) /\ s[i] = "-"
      j == IF i <= Len(s) /\ s[i] \in {"-", "+"} THEN i + 1 ELSE i
      k == DigitsEnd(s, j)
      mag == DigitsToNat(SubSeq(s, j, k - 1), 0)
  IN  IF k = j THEN [nan |-> TRUE, n |-> 0]
      ELSE [nan |-> FALSE, n |-> IF neg THEN -mag ELSE mag]

(***************************************************************************)
(* HMAC-SHA256, hex encoded.  The digest is an idealised keyed hash: a     *)
(* fixed-length hex string that is an injective function of (secret,       *)
(* message) over the strings of the model.                                 *)
(***************************************************************************)
HexLen == 64

HexDigits == <<"0", "1", "2", "3", "4", "5", "6", "7", "8", "9",
               "a", "b", "c", "d", "e", "f">>

Alphabet == <<"0", "1", "2", "3", "4", "5", "6", "7", "8", "9",
              "-", "+", " ", ".", "x", "{", "}", "\"", ":", ",",
              "a", "b", "k", "q", "s", "h", "=">>

Code(c) == CHOOSE i \in 1..Len(Alphabet) : Alphabet[i] = c

HexByte(n) == <<HexDigits[(n \div 16) + 1], HexDigits[(n % 16) + 1]>>

RECURSIVE HexOf(_)
HexOf(s) == IF s = <<>> THEN <<>> ELSE HexByte(Code(Head(s))) \o HexOf(Tail(s))

\* createHmac('sha256', secret).update(message).digest('hex')
HmacSha256Hex(secret, message) ==
  LET body == HexOf(secret) \o <<"f", "f">> \o HexOf(message)
  IN  [i \in 1..HexLen |-> IF i <= Len(body) THEN body[i] ELSE "0"]

(***************************************************************************)
(* JSON.  A JavaScript value is an object whose properties hold numbers,   *)
(* or a number; properties keep their insertion order.                     *)
(***************************************************************************)
JsObject(entries) == [type |-> "object", entries |-> entries, num |-> 0]

JsNumber(n) == [type |-> "number", entries |-> <<>>, num |-> n]

RECURSIVE StringifyEntries(_)
StringifyEntries(es) ==
  IF es = <<>> THEN <<>>
  ELSE <<"\"">> \o Head(es).k \o <<"\"", ":">> \o String(Head(es).v)
       \o (IF Len(es) > 1 THEN <<",">> ELSE <<>>) \o StringifyEntries(Tail(es))

\* JSON.stringify(value): no white space, properties in insertion order
JSONstringify(v) ==
  IF v.type = "object" THEN <<"{">> \o StringifyEntries(v.entries) \o <<"}">>
  ELSE String(v.num)

JsonFail == [ok |-> FALSE, val |-> JsNumber(0), next |-> 0]

\* a JSON number (here: a non-negative integer without a leading zero)
ParseNumber(s, i) ==
  LET j == DigitsEnd(s, i)
  IN  IF j = i \/ (s[i] = "0" /\ j > i + 1) THEN JsonFail
      ELSE [ok |-> TRUE, val |-> JsNumber(DigitsToNat(SubSeq(s, i, j - 1), 0)),
            next |-> j]

RECURSIVE QuoteEnd(_, _)
\* index of the next double quote of s at or after i, Len(s) + 1 when none
QuoteEnd(s, i) ==
  IF i <= Len(s) /\ s[i] # "\"" THEN QuoteEnd(s, i + 1) ELSE i

\* a repeated property name keeps its first position and takes the last value
PutEntry(es, k, v) ==
  IF \E i \in 1..Len(es) : es[i].k = k
  THEN [i \in 1..Len(es) |-> IF es[i].k = k THEN [k |-> k, v |-> v] ELSE es[i]]
  ELSE Append(es, [k |-> k, v |-> v])

RECURSIVE ParseMembers(_, _, _)
\* members of an object, s[i] being the first character after "{" or ","
ParseMembers(s, i, acc) ==
  LET a == SkipWs(s, i)
      q == QuoteEnd(s, a + 1)
      c == SkipWs(s, q + 1)
      n == ParseNumber(s, SkipWs(s, c + 1))
      e == SkipWs(s, n.next)
      es == PutEntry(acc, SubSeq(s, a + 1, q - 1), n.val.num)
  IN  IF a > Len(s) \/ s[a] # "\"" \/ q > Len(s) THEN JsonFail
      ELSE IF c > Len(s) \/ s[c] # ":" \/ SkipWs(s, c + 1) > Len(s) THEN JsonFail
      ELSE IF ~n.ok \/ e > Len(s) THEN JsonFail
      ELSE IF s[e] = "}" THEN [ok |-> TRUE, val |-> JsObject(es), next |-> e + 1]
      ELSE IF s[e] = "," THEN ParseMembers(s, e + 1, es)
      ELSE JsonFail

ParseValue(s, i) ==
  IF i > Len(s) THEN JsonFail
  ELSE IF s[i] = "{"
  THEN LET a == SkipWs(s, i + 1)
       IN  IF a <= Len(s) /\ s[a] = "}"
           THEN [ok |-> TRUE, val |-> JsObject(<<>>), next |-> a + 1]
           ELSE ParseMembers(s, i + 1, <<>>)
  ELSE ParseNumber(s, i)

\* JSON.parse(text): ok is FALSE where JSON.parse throws a SyntaxError
JSONparse(s) ==
  LET r == ParseValue(s, SkipWs(s, 1))
  IN  IF r.ok /\ SkipWs(s, r.next) > Len(s) THEN [ok |-> TRUE, val |-> r.val]
      ELSE [ok |-> FALSE, val |-> JsNumber(0)]

(***************************************************************************)
(* Webhook.verify and Webhook.sign.                                        *)
(***************************************************************************)
StringPayload(s) == [kind |-> "string", str |-> s, val |-> JsNumber(0)]

ObjectPayload(v) == [kind |-> "object", str |-> <<>>, val |-> v]

\* an optional number (number | undefined)
NoNumber == [def |-> FALSE, n |-> 0]

Num(n) == [def |-> TRUE, n |-> n]

\* Math.floor(Date.now() / 1000)
EpochSeconds(ms) == ms \div 1000

DefaultMaxAgeSeconds == 300

Sha256Prefix == <<"s", "h", "a", "2", "5", "6", "=">>

HasPrefix(s, p) == Len(s) >= Len(p) /\ SubSeq(s, 1, Len(p)) = p

\* a verifier that compares the header as it came, tag included
StripPrefix_None(s) == s

\* signature.replace(/^sha256=/, '')
StripPrefix(s) ==
  IF HasPrefix(s, Sha256Prefix) THEN SubSeq(s, Len(Sha256Prefix) + 1, Len(s))
  ELSE s

\* typeof payload === 'string' ? payload : JSON.stringify(payload)
PayloadString(payload) ==
  IF payload.kind = "string" THEN payload.str ELSE JSONstringify(payload.val)

\* crypto.timingSafeEqual on the two buffers: throws when the lengths differ
timingSafeEqual(a, b) ==
  IF Len(a) # Len(b) THEN [threw |-> TRUE, eq |-> FALSE]
  ELSE [threw |-> FALSE, eq |-> a = b]

NoMessage == [text |-> "", age |-> 0, max |-> 0]

Msg(text) == [text |-> text, age |-> 0, max |-> 0]

MissingSignature == Msg("Missing X-NOPE-Signature header")

MissingTimestamp == Msg("Missing X-NOPE-Timestamp header")

SecretRequired == Msg("Webhook secret is required")

InvalidTimestamp == Msg("Invalid timestamp format")

TooOld(age, max) ==
  [text |-> "Timestamp too old: ${age}s ago (max: ${maxAgeSeconds}s)",
   age |-> age, max |-> max]

TooFarInFuture(ahead, max) ==
  [text |-> "Timestamp too far in future: ${-age}s ahead (max: ${maxAgeSeconds}s)",
   age |-> ahead, max |-> max]

VerificationFailed == Msg("Signature verification failed")

\* throw new WebhookSignatureError(message)
WebhookSignatureError(message) ==
  [outcome |-> "throw", error |-> "WebhookSignatureError", message |-> message,
   value |-> JsNumber(0)]

\* the SyntaxError that JSON.parse throws
SyntaxError ==
  [outcome |-> "throw", error |-> "SyntaxError", message |-> NoMessage,
   value |-> JsNumber(0)]

Return(v) ==
  [outcome |-> "return", error |-> "none", message |-> NoMessage, value |-> v]

\* { maxAgeSeconds = 300 } = options
MaxAgeSeconds(maxAge) == IF maxAge.def THEN maxAge.n ELSE DefaultMaxAgeSeconds

\* a freshness check that is also made for maxAgeSeconds = 0
FreshnessChecked_Always(maxAgeSeconds) == maxAgeSeconds >= 0

\* if (maxAgeSeconds > 0): the freshness check is made
FreshnessChecked(maxAgeSeconds) == maxAgeSeconds > 0

\* an exclusive bound: a timestamp of exactly maxAgeSeconds is stale
IsTooOld_Exclusive(age, maxAgeSeconds) == age >= maxAgeSeconds

\* if (age > maxAgeSeconds)
IsTooOld(age, maxAgeSeconds) == age > maxAgeSeconds

\* if (age < -maxAgeSeconds)
IsTooFarInFuture(age, maxAgeSeconds) == age < -maxAgeSeconds

\* a verifier that signs the parsed number instead of the header's own text
VerifyMessage_Parsed(timestamp, payloadString) ==
  String(parseInt(timestamp).n) \o <<".">> \o payloadString

\* `${timestamp}.${payloadString}` of verify
VerifyMessage(timestamp, payloadString) == timestamp \o <<".">> \o payloadString

\* the RangeError that timingSafeEqual throws
RangeError ==
  [outcome |-> "throw", error |-> "RangeError", message |-> NoMessage,
   value |-> JsNumber(0)]

\* a comparison whose length mismatch is reported with a message of its own
SignatureCheck_LengthMessage(expected, received) ==
  LET cmp == timingSafeEqual(expected, received)
  IN  IF cmp.threw
      THEN [pass |-> FALSE,
            thrown |-> WebhookSignatureError(Msg("Signature length mismatch"))]
      ELSE IF ~cmp.eq
      THEN [pass |-> FALSE, thrown |-> WebhookSignatureError(VerificationFailed)]
      ELSE [pass |-> TRUE, thrown |-> Return(JsNumber(0))]

\* a comparison without the try/catch: the length mismatch propagates
SignatureCheck_Uncaught(expected, received) ==
  LET cmp == timingSafeEqual(expected, received)
  IN  IF cmp.threw THEN [pass |-> FALSE, thrown |-> RangeError]
      ELSE IF ~cmp.eq
      THEN [pass |-> FALSE, thrown |-> WebhookSignatureError(VerificationFailed)]
      ELSE [pass |-> TRUE, thrown |-> Return(JsNumber(0))]

\* a verifier with a replay cache: a signature accepted before is refused
SignatureCheck_Replay(expected, received) ==
  LET cmp == timingSafeEqual(expected, received)
      isValid == IF cmp.threw THEN FALSE ELSE cmp.eq
      replayed == \E d \in DOMAIN log :
                    log[d].accepted > 0 /\ StripPrefix(d.signature.s) = received
  IN  IF ~isValid \/ replayed
      THEN [pass |-> FALSE, thrown |-> WebhookSignatureError(VerificationFailed)]
      ELSE [pass |-> TRUE, thrown |-> Return(JsNumber(0))]

\* the constant-time comparison and the throw that follows it: a length
\* mismatch raised by timingSafeEqual is caught and counts as invalid
SignatureCheck(expected, received) ==
  LET cmp == timingSafeEqual(expected, received)
      isValid == IF cmp.threw THEN FALSE ELSE cmp.eq
  IN  IF ~isValid
      THEN [pass |-> FALSE, thrown |-> WebhookSignatureError(VerificationFailed)]
      ELSE [pass |-> TRUE, thrown |-> Return(JsNumber(0))]

\* typeof payload === 'string' ? JSON.parse(payload) : payload, returned
ParsedPayload(payload) ==
  IF payload.kind = "string"
  THEN (IF JSONparse(payload.str).ok THEN Return(JSONparse(payload.str).val)
        ELSE SyntaxError)
  ELSE Return(payload.val)

\* a verifier that compares the signatures before it looks at the age of
\* the timestamp
verify_SignatureFirst(payload, signature, timestamp, secret, maxAge, ms) ==
  LET maxAgeSeconds == MaxAgeSeconds(maxAge)
      timestampNum == parseInt(timestamp.s)
      age == EpochSeconds(ms) - timestampNum.n
      payloadString == PayloadString(payload)
      message == VerifyMessage(timestamp.s, payloadString)
      expected == HmacSha256Hex(secret, message)
      received == StripPrefix(signature.s)
      check == SignatureCheck(expected, received)
  IN  IF ~Truthy(signature) THEN WebhookSignatureError(MissingSignature)
      ELSE IF ~Truthy(timestamp) THEN WebhookSignatureError(MissingTimestamp)
      ELSE IF Len(secret) = 0 THEN WebhookSignatureError(SecretRequired)
      ELSE IF timestampNum.nan THEN WebhookSignatureError(InvalidTimestamp)
      ELSE IF ~check.pass THEN check.thrown
      ELSE IF FreshnessChecked(maxAgeSeconds) /\ IsTooOld(age, maxAgeSeconds)
      THEN WebhookSignatureError(TooOld(age, maxAgeSeconds))
      ELSE IF FreshnessChecked(maxAgeSeconds)
              /\ IsTooFarInFuture(age, maxAgeSeconds)
      THEN WebhookSignatureError(TooFarInFuture(-age, maxAgeSeconds))
      ELSE ParsedPayload(payload)

\* Webhook.verify(payload, signature, timestamp, secret, options) called when
\* Date.now() is ms; maxAge is options.maxAgeSeconds
verify(payload, signature, timestamp, secret, maxAge, ms) ==
  LET maxAgeSeconds == MaxAgeSeconds(maxAge)
      timestampNum == parseInt(timestamp.s)
      age == EpochSeconds(ms) - timestampNum.n
      payloadString == PayloadString(payload)
      message == VerifyMessage(timestamp.s, payloadString)
      expected == HmacSha256Hex(secret, message)
      received == StripPrefix(signature.s)
      check == SignatureCheck(expected, received)
  IN  IF ~Truthy(signature) THEN WebhookSignatureError(MissingSignature)
      ELSE IF ~Truthy(timestamp) THEN WebhookSignatureError(MissingTimestamp)
      ELSE IF Len(secret) = 0 THEN WebhookSignatureError(SecretRequired)
      ELSE IF timestampNum.nan THEN WebhookSignatureError(InvalidTimestamp)
      ELSE IF FreshnessChecked(maxAgeSeconds) /\ IsTooOld(age, maxAgeSeconds)
      THEN WebhookSignatureError(TooOld(age, maxAgeSeconds))
      ELSE IF FreshnessChecked(maxAgeSeconds)
              /\ IsTooFarInFuture(age, maxAgeSeconds)
      THEN WebhookSignatureError(TooFarInFuture(-age, maxAgeSeconds))
      ELSE IF ~check.pass THEN check.thrown
      ELSE ParsedPayload(payload)

\* timestamp || Math.floor(Date.now() / 1000): 0 counts as omitted
SignTimestamp_Falsy(timestamp, ms) ==
  IF timestamp.def /\ timestamp.n # 0 THEN timestamp.n ELSE EpochSeconds(ms)

\* timestamp ?? Math.floor(Date.now() / 1000)
SignTimestamp(timestamp, ms) ==
  IF timestamp.def THEN timestamp.n ELSE EpochSeconds(ms)

\* a signer that joins timestamp and payload with ":" where verify uses "."
SignMessage_Colon(ts, payloadString) == String(ts) \o <<":">> \o payloadString

\* `${ts}.${payloadString}` of sign
SignMessage(ts, payloadString) == String(ts) \o <<".">> \o payloadString

\* a signer that serializes an object with a space after each colon
SignPayloadString_Spaced(payload) ==
  IF payload.kind = "string" THEN payload.str
  ELSE IF payload.val.entries = <<>> THEN <<"{", " ", "}">>
  ELSE <<"{", " ">> \o Tail(JSONstringify(payload.val))

\* typeof payload === 'string' ? payload : JSON.stringify(payload) of sign
SignPayloadString(payload) ==
  IF payload.kind = "string" THEN payload.str ELSE JSONstringify(payload.val)

\* Webhook.sign(payload, secret, timestamp?) called when Date.now() is ms
sign(payload, secret, timestamp, ms) ==
  LET ts == SignTimestamp(timestamp, ms)
      payloadString == SignPayloadString(payload)
      message == SignMessage(ts, payloadString)
      sig == HmacSha256Hex(secret, message)
  IN  [signature |-> Sha256Prefix \o sig, timestamp |-> String(ts)]

(***************************************************************************)
(* The inputs the operations are called with.                              *)
(***************************************************************************)
Seconds0 == EpochSeconds(Now0)

ObjA1 == JsObject(<<[k |-> <<"a">>, v |-> 1]>>)

ObjA1B2 == JsObject(<<[k |-> <<"a">>, v |-> 1], [k |-> <<"b">>, v |-> 2]>>)

ObjB2A1 == JsObject(<<[k |-> <<"b">>, v |-> 2], [k |-> <<"a">>, v |-> 1]>>)

Objects == {JsObject(<<>>), ObjA1, ObjA1B2, ObjB2A1}

\* text that JSON.parse accepts: serialized objects, one with extra white
\* space, and a bare number
JsonTexts ==
  {JSONstringify(ObjA1), JSONstringify(ObjA1B2),
   <<"{", " ", "\"", "a", "\"", ":", "1", "}">>, <<"1">>}

\* text that JSON.parse rejects
NonJsonTexts == {<<>>, <<"x">>, <<"{", "\"", "a", "\"", ":", "1">>}

Payloads ==
  {ObjectPayload(o) : o \in Objects}
    \cup {StringPayload(t) : t \in JsonTexts \cup NonJsonTexts}

Secrets == {<<>>, <<"k">>, <<"q">>}

OtherSecret(secret) == IF secret = <<"k">> THEN <<"q">> ELSE <<"k">>

OtherPayload(payload) ==
  IF PayloadString(payload) = JSONstringify(ObjA1)
  THEN StringPayload(JSONstringify(ObjA1B2))
  ELSE IF PayloadString(payload) = JSONstringify(ObjB2A1)
  THEN ObjectPayload(ObjA1B2)
  ELSE StringPayload(JSONstringify(ObjA1))

\* integer timestamps: far past, around both edges of the default window as
\* the clock advances, the present, and beyond the future edge
TimestampNums ==
  {-1, 0, Seconds0 - DefaultMaxAgeSeconds - 1, Seconds0 - DefaultMaxAgeSeconds,
   Seconds0, Seconds0 + DefaultMaxAgeSeconds + 1,
   Seconds0 + DefaultMaxAgeSeconds + MaxTicks + 1}

SignTimestamps == {NoNumber} \cup {Num(n) : n \in TimestampNums}

\* X-NOPE-Timestamp header values: absent, empty, decimal integers, and
\* strings that are not the decimal representation of an integer
TimestampHeaders ==
  {Undefined, Str(<<>>), Str(<<"x">>)}
    \cup {Str(String(n)) : n \in TimestampNums}
    \cup {Str(String(Seconds0) \o <<"x">>), Str(<<" ">> \o String(Seconds0)),
          Str(<<"+">> \o String(Seconds0)), Str(String(Seconds0) \o <<".", "5">>)}

MaxAges == {NoNumber, Num(0), Num(1), Num(DefaultMaxAgeSeconds)}

\* s with its first character replaced by another hex digit
AlterFirst(s) == [s EXCEPT ![1] = IF s[1] = "0" THEN "1" ELSE "0"]

\* X-NOPE-Signature header values for a call made when Date.now() is ms:
\* absent, empty, the bare tag, what sign returns for the call's payload and
\* secret, the digest of the call's own message with and without the tag,
\* damaged copies of it, and digests made with another secret or over
\* another payload
SignatureHeaders(payload, timestamp, secret, ms) ==
  LET Digest(p, k) == HmacSha256Hex(k, timestamp.s \o <<".">> \o PayloadString(p))
      own == Digest(payload, secret)
  IN  {Str(sign(payload, secret, t, ms).signature) : t \in SignTimestamps} \cup
      {Undefined, Str(<<>>), Str(Sha256Prefix),
       Str(Sha256Prefix \o own), Str(own),
       Str(Sha256Prefix \o Sha256Prefix \o own),
       Str(Sha256Prefix \o SubSeq(own, 1, HexLen - 1)),
       Str(Sha256Prefix \o own \o <<"0">>),
       Str(Sha256Prefix \o AlterFirst(own)),
       Str(Sha256Prefix \o Digest(payload, OtherSecret(secret))),
       Str(Sha256Prefix \o Digest(OtherPayload(payload), secret))}

(***************************************************************************)
(* The state machine: a clock and the call being made to the module.  Both *)
(* operations are synchronous, so the clock does not move during a call.   *)
(***************************************************************************)
NoResult ==
  [outcome |-> "none", error |-> "none", message |-> NoMessage,
   value |-> JsNumber(0)]

NoSigned == [signature |-> <<>>, timestamp |-> <<>>]

NoCall ==
  [op |-> "none", payload |-> StringPayload(<<>>), signature |-> Undefined,
   timestamp |-> Undefined, secret |-> <<>>, maxAge |-> NoNumber,
   signTimestamp |-> NoNumber, result |-> NoResult,
   signed |-> NoSigned]

(***************************************************************************)
(* NopeClient: the error classes, the constructor, evaluate, screen,       *)
(* request and handleResponse.                                             *)
(***************************************************************************)
DEFAULT_BASE_URL ==
  <<"h", "t", "t", "p", "s", ":", "/", "/", "a", "p", "i", ".",
    "n", "o", "p", "e", ".", "n", "e", "t">>

DEFAULT_TIMEOUT == 30000

\* a base URL kept as it was given
StripTrailingSlash_Kept(s) == s

\* .replace(/\/$/, ''): one trailing slash is removed
StripTrailingSlash(s) ==
  IF Len(s) > 0 /\ s[Len(s)] = "/" THEN SubSeq(s, 1, Len(s) - 1) ELSE s

\* new NopeClient(options)
NopeClient(options) ==
  [apiKey |-> options.apiKey,
   baseUrl |-> StripTrailingSlash(IF options.baseUrl.def THEN options.baseUrl.s
                                  ELSE DEFAULT_BASE_URL),
   timeout |-> IF options.timeout.def THEN options.timeout.n
               ELSE DEFAULT_TIMEOUT]

\* error messages: a template and the strings put into it
NoText == [text |-> "", arg |-> <<>>, arg2 |-> <<>>]

Text(t) == [text |-> t, arg |-> <<>>, arg2 |-> <<>>]

NeitherProvided == Text("Either 'messages' or 'text' must be provided")

BothProvided ==
  Text("Only one of 'messages' or 'text' can be provided, not both")

InvalidJsonResponse == Text("Invalid JSON response")

TimedOut(timeout) ==
  [text |-> "Request timed out after ${this.timeout}ms",
   arg |-> String(timeout), arg2 |-> <<>>]

FailedToConnect(baseUrl, message) ==
  [text |-> "Failed to connect to ${this.baseUrl}: ${error.message}",
   arg |-> baseUrl, arg2 |-> message]

\* a message that is the string s itself
Verbatim(s) == [text |-> "${message}", arg |-> s, arg2 |-> <<>>]

\* the errors of the transport: an optional Error with its name and message
NoOriginalError == [def |-> FALSE, name |-> "", message |-> <<>>]

\* what the AbortController makes fetch reject with
AbortError ==
  [def |-> TRUE, name |-> "AbortError",
   message |-> <<"a", "b", "o", "r", "t", "e", "d">>]

\* what fetch rejects with when the connection cannot be made
FetchFailed ==
  [def |-> TRUE, name |-> "TypeError",
   message |-> <<"f", "e", "t", "c", "h", " ", "f", "a", "i", "l", "e", "d">>]

\* what response.text() rejects with when the connection drops
BodyTerminated ==
  [def |-> TRUE, name |-> "TypeError",
   message |-> <<"t", "e", "r", "m", "i", "n", "a", "t", "e", "d">>]

\* retryAfter?: number, in milliseconds; nan when it is not a number
NoRetryAfter == [def |-> FALSE, nan |-> FALSE, ms |-> 0]

JsUndefined == [type |-> "undefined", entries |-> <<>>, num |-> 0]

\* the promise an operation returns: pending, fulfilled with a value or
\* rejected with an error of some class
Pending ==
  [state |-> "pending", error |-> "none", message |-> NoText,
   statusCode |-> NoNumber, responseBody |-> Undefined,
   retryAfter |-> NoRetryAfter, originalError |-> NoOriginalError,
   value |-> JsUndefined]

Fulfilled(v) == [Pending EXCEPT !.state = "fulfilled", !.value = v]

\* throw new Error(message)
Error(message) ==
  [Pending EXCEPT !.state = "rejected", !.error = "Error", !.message = message]

\* an error of the transport that reaches the caller as it is
Escapes(error) ==
  [Pending EXCEPT !.state = "rejected", !.error = error.name,
                  !.message = Verbatim(error.message)]

NopeError(message, statusCode, responseBody) ==
  [Pending EXCEPT !.state = "rejected", !.error = "NopeError",
                  !.message = message, !.statusCode = statusCode,
                  !.responseBody = responseBody]

NopeAuthError(message, responseBody) ==
  [NopeError(message, Num(401), responseBody) EXCEPT !.error = "NopeAuthError"]

NopeRateLimitError(message, retryAfter, responseBody) ==
  [NopeError(message, Num(429), responseBody) EXCEPT
     !.error = "NopeRateLimitError", !.retryAfter = retryAfter]

NopeValidationError(message, responseBody) ==
  [NopeError(message, Num(400), responseBody) EXCEPT
     !.error = "NopeValidationError"]

NopeServerError(message, statusCode, responseBody) ==
  [NopeError(message, statusCode, responseBody) EXCEPT
     !.error = "NopeServerError"]

NopeConnectionError(message, originalError) ==
  [NopeError(message, NoNumber, Undefined) EXCEPT
     !.error = "NopeConnectionError", !.originalError = originalError]

\* the options of evaluate and screen: messages is an optional array, text
\* and userContext optional strings, config an optional object
NoMessages == [def |-> FALSE, items |-> <<>>]

Messages(items) == [def |-> TRUE, items |-> items]

NoConfig == [def |-> FALSE, obj |-> JsObject(<<>>)]

Config(obj) == [def |-> TRUE, obj |-> obj]

\* a validation by truthiness, which takes the empty text for a missing one
ValidateOptions_Truthy(options) ==
  LET hasText == options.text.def /\ options.text.s # <<>>
  IN  IF ~options.messages.def /\ ~hasText THEN Error(NeitherProvided)
      ELSE IF options.messages.def /\ hasText THEN Error(BothProvided)
      ELSE Pending

\* the checks evaluate and screen make before anything else: the Error
\* thrown, or Pending when the options pass
ValidateOptions(options) ==
  IF ~options.messages.def /\ ~options.text.def THEN Error(NeitherProvided)
  ELSE IF options.messages.def /\ options.text.def THEN Error(BothProvided)
  ELSE Pending

\* the values of a request payload: an array of messages, a string or an
\* object
ArrayValue(items) ==
  [type |-> "array", items |-> items, s |-> <<>>, obj |-> JsObject(<<>>)]

StringValue(s) ==
  [type |-> "string", items |-> <<>>, s |-> s, obj |-> JsObject(<<>>)]

ObjectValue(obj) == [type |-> "object", items |-> <<>>, s |-> <<>>, obj |-> obj]

\* payload[k] = v: a payload is the sequence of its members in the order
\* they were set
Member(k, v) == [k |-> k, v |-> v]

ConfigKey == <<"c", "o", "n", "f", "i", "g">>

MessagesKey == <<"m", "e", "s", "s", "a", "g", "e", "s">>

TextKey == <<"t", "e", "x", "t">>

UserContextKey ==
  <<"u", "s", "e", "r", "_", "c", "o", "n", "t", "e", "x", "t">>

\* the members both payloads have for messages and text
InputMembers(options) ==
  (IF options.messages.def
   THEN <<Member(MessagesKey, ArrayValue(options.messages.items))>>
   ELSE <<>>)
  \o (IF options.text.def THEN <<Member(TextKey, StringValue(options.text.s))>>
      ELSE <<>>)

\* an evaluate payload that has config only when the caller gave one
EvaluatePayload_ConfigIfGiven(options) ==
  (IF options.config.def
   THEN <<Member(ConfigKey, ObjectValue(options.config.obj))>> ELSE <<>>)
  \o InputMembers(options)
  \o (IF options.userContext.def
      THEN <<Member(UserContextKey, StringValue(options.userContext.s))>>
      ELSE <<>>)

\* the request payload evaluate builds
EvaluatePayload(options) ==
  <<Member(ConfigKey, ObjectValue(IF options.config.def THEN options.config.obj
                                  ELSE JsObject(<<>>)))>>
  \o InputMembers(options)
  \o (IF options.userContext.def
      THEN <<Member(UserContextKey, StringValue(options.userContext.s))>>
      ELSE <<>>)

\* the request payload screen builds
ScreenPayload(options) ==
  InputMembers(options)
  \o (IF options.config.def
      THEN <<Member(ConfigKey, ObjectValue(options.config.obj))>> ELSE <<>>)

\* JSON.stringify of a string that needs no escape
StringifyString(s) == <<"\"">> \o s \o <<"\"">>

RoleKey == <<"r", "o", "l", "e">>

ContentKey == <<"c", "o", "n", "t", "e", "n", "t">>

RECURSIVE StringifyMessages(_)
\* the elements of an array of { role, content } messages
StringifyMessages(items) ==
  IF items = <<>> THEN <<>>
  ELSE <<"{">> \o StringifyString(RoleKey) \o <<":">>
       \o StringifyString(Head(items).role) \o <<",">>
       \o StringifyString(ContentKey) \o <<":">>
       \o StringifyString(Head(items).content) \o <<"}">>
       \o (IF Len(items) > 1 THEN <<",">> ELSE <<>>)
       \o StringifyMessages(Tail(items))

StringifyValue(v) ==
  IF v.type = "array" THEN <<"[">> \o StringifyMessages(v.items) \o <<"]">>
  ELSE IF v.type = "string" THEN StringifyString(v.s)
  ELSE JSONstringify(v.obj)

RECURSIVE StringifyMembers(_)
StringifyMembers(payload) ==
  IF payload = <<>> THEN <<>>
  ELSE StringifyString(Head(payload).k) \o <<":">>
       \o StringifyValue(Head(payload).v)
       \o (IF Len(payload) > 1 THEN <<",">> ELSE <<>>)
       \o StringifyMembers(Tail(payload))

\* JSON.stringify(body) of a request payload
StringifyPayload(payload) == <<"{">> \o StringifyMembers(payload) \o <<"}">>

EvaluatePath == <<"/", "v", "1", "/", "e", "v", "a", "l", "u", "a", "t", "e">>

ScreenPath == <<"/", "v", "1", "/", "s", "c", "r", "e", "e", "n">>

ApplicationJson ==
  <<"a", "p", "p", "l", "i", "c", "a", "t", "i", "o", "n", "/",
    "j", "s", "o", "n">>

UserAgent ==
  <<"n", "o", "p", "e", "-", "n", "o", "d", "e", "/", "0", ".", "1", ".", "0">>

Bearer == <<"B", "e", "a", "r", "e", "r", " ">>

\* headers that carry Authorization whenever an apiKey was given at all
RequestHeaders_Defined(apiKey) ==
  [contentType |-> Str(ApplicationJson),
   userAgent |-> Str(UserAgent),
   authorization |-> IF apiKey.def THEN Str(Bearer \o apiKey.s) ELSE Undefined]

\* the headers of a request; a header that is not set is undefined
RequestHeaders(apiKey) ==
  [contentType |-> Str(ApplicationJson),
   userAgent |-> Str(UserAgent),
   authorization |-> IF Truthy(apiKey) THEN Str(Bearer \o apiKey.s)
                     ELSE Undefined]

NoPayload == <<>>

NoRequest ==
  [method |-> "", url |-> <<>>,
   headers |-> [contentType |-> Undefined, userAgent |-> Undefined,
                authorization |-> Undefined],
   payload |-> NoPayload, body |-> Undefined]

\* the arguments of the fetch call, with the payload the body is made of;
\* a payload is an object and so never falsy
FetchArguments(c, method, path, body) ==
  [method |-> method, url |-> c.baseUrl \o path,
   headers |-> RequestHeaders(c.apiKey), payload |-> body,
   body |-> Str(StringifyPayload(body))]

\* the three digits after the decimal point, as thousandths
Thousandths(s, i, j) ==
  LET D(k) == IF i + k < j THEN DigitVal(s[i + k]) ELSE 0
  IN  100 * D(0) + 10 * D(1) + D(2)

\* parseFloat(s), in thousandths (exact for up to three decimals): leading
\* white space is skipped, one sign is allowed, digits with an optional
\* fraction are read and whatever follows is ignored; NaN when there is no
\* digit to read
parseFloat(s) ==
  LET i == SkipWs(s, 1)
      neg == i <= Len(s) /\ s[i] = "-"
      j == IF i <= Len(s) /\ s[i] \in {"-", "+"} THEN i + 1 ELSE i
      k == DigitsEnd(s, j)
      f == IF k <= Len(s) /\ s[k] = "." THEN k + 1 ELSE k
      l == DigitsEnd(s, f)
      mag == 1000 * DigitsToNat(SubSeq(s, j, k - 1), 0) + Thousandths(s, f, l)
  IN  IF k = j /\ l = f THEN [nan |-> TRUE, milli |-> 0]
      ELSE [nan |-> FALSE, milli |-> IF neg THEN -mag ELSE mag]

\* a retry interval that keeps the header's number of seconds
RetryAfterMs_Seconds(retryAfter) ==
  IF Truthy(retryAfter)
  THEN [def |-> TRUE, nan |-> parseFloat(retryAfter.s).nan,
        ms |-> parseFloat(retryAfter.s).milli \div 1000]
  ELSE NoRetryAfter

\* retryAfter ? parseFloat(retryAfter) * 1000 : undefined
RetryAfterMs(retryAfter) ==
  IF Truthy(retryAfter)
  THEN [def |-> TRUE, nan |-> parseFloat(retryAfter.s).nan,
        ms |-> (parseFloat(retryAfter.s).milli * 1000) \div 1000]
  ELSE NoRetryAfter

\* response.ok
ResponseOk(status) == status >= 200 /\ status <= 299

ErrorKey == <<"e", "r", "r", "o", "r">>

\* errorData.error || responseText: a falsy error field gives the text
ErrorMessage_Or(responseText) ==
  LET errorData == JSONparse(responseText)
      es == errorData.val.entries
      HasError == \E i \in 1..Len(es) : es[i].k = ErrorKey
      error == es[CHOOSE i \in 1..Len(es) : es[i].k = ErrorKey].v
  IN  IF errorData.ok /\ errorData.val.type = "object" /\ HasError /\ error # 0
      THEN Verbatim(String(error))
      ELSE Verbatim(responseText)

\* errorData.error ?? responseText, and responseText when it is no JSON
ErrorMessage(responseText) ==
  LET errorData == JSONparse(responseText)
      es == errorData.val.entries
      HasError == \E i \in 1..Len(es) : es[i].k = ErrorKey
      error == es[CHOOSE i \in 1..Len(es) : es[i].k = ErrorKey].v
  IN  IF errorData.ok /\ errorData.val.type = "object" /\ HasError
      THEN Verbatim(String(error))
      ELSE Verbatim(responseText)

\* a parse that gives undefined for a body that is no JSON
ParseSuccess_Undefined(status, responseText) ==
  IF JSONparse(responseText).ok THEN Fulfilled(JSONparse(responseText).val)
  ELSE Fulfilled(JsUndefined)

\* the body of a success response
ParseSuccess(status, responseText) ==
  IF JSONparse(responseText).ok THEN Fulfilled(JSONparse(responseText).val)
  ELSE NopeError(InvalidJsonResponse, Num(status), Str(responseText))

\* a mapping that knows status 500 only as a server error
StatusError_Only500(status, errorMessage, retryAfter, responseText) ==
  IF status = 401 THEN NopeAuthError(errorMessage, Str(responseText))
  ELSE IF status = 400 THEN NopeValidationError(errorMessage, Str(responseText))
  ELSE IF status = 429
  THEN NopeRateLimitError(errorMessage, RetryAfterMs(retryAfter),
                          Str(responseText))
  ELSE IF status = 500
  THEN NopeServerError(errorMessage, Num(status), Str(responseText))
  ELSE NopeError(errorMessage, Num(status), Str(responseText))

\* the error thrown for a response that is not ok
StatusError(status, errorMessage, retryAfter, responseText) ==
  IF status = 401 THEN NopeAuthError(errorMessage, Str(responseText))
  ELSE IF status = 400 THEN NopeValidationError(errorMessage, Str(responseText))
  ELSE IF status = 429
  THEN NopeRateLimitError(errorMessage, RetryAfterMs(retryAfter),
                          Str(responseText))
  ELSE IF status >= 500
  THEN NopeServerError(errorMessage, Num(status), Str(responseText))
  ELSE NopeError(errorMessage, Num(status), Str(responseText))

\* handleResponse once response.text() has given responseText; retryAfter
\* is response.headers.get('Retry-After')
handleResponse(status, retryAfter, responseText) ==
  IF ResponseOk(status) THEN ParseSuccess(status, responseText)
  ELSE StatusError(status, ErrorMessage(responseText), retryAfter,
                   responseText)

\* one evaluate or screen operation: where it stands (idle, fetching: the
\* fetch call is pending, reading: response.text() is pending, done), what
\* it was called with, the HTTP requests it has issued, its timer (none,
\* armed, cleared, fired), whether the timeout has elapsed since the
\* request started, the failure of the transport if there was one, the
\* response received and the promise returned to the caller
NoOptions ==
  [messages |-> NoMessages, text |-> Undefined, config |-> NoConfig,
   userContext |-> Undefined]

NoResponse == [status |-> 0, retryAfter |-> Undefined, text |-> Undefined]

IdleOp ==
  [pc |-> "idle", kind |-> "none", options |-> NoOptions, sent |-> 0,
   request |-> NoRequest, timer |-> "none", elapsed |-> FALSE,
   transport |-> NoOriginalError, response |-> NoResponse,
   outcome |-> Pending]

\* a client that sends the request again after a server error
Settle_Retry(op, outcome) ==
  IF outcome.error = "NopeServerError" /\ op.sent < 2
  THEN [op EXCEPT !.pc = "fetching", !.sent = @ + 1, !.timer = "armed",
                  !.response = NoResponse]
  ELSE [op EXCEPT !.pc = "done", !.outcome = outcome]

\* the operation returns or throws: its promise is settled
Settle(op, outcome) == [op EXCEPT !.pc = "done", !.outcome = outcome]

\* a clearTimeout that leaves the timer as it is
clearTimeout_Kept(timer) == timer

\* clearTimeout(timeoutId): a timer that is armed is cleared; one that has
\* fired stays as it is
clearTimeout(timer) == IF timer = "armed" THEN "cleared" ELSE timer

\* one AbortController that the fetch calls of all operations share
Aborts_Shared(i, j) == TRUE

\* const controller = new AbortController() in each request: the timer of
\* operation i aborts the fetch call of operation j only when j is i
Aborts(i, j) == i = j

\* request up to the await of fetch: the timer is armed and the one fetch
\* call is made
request(c, op, method, path, body) ==
  [op EXCEPT !.pc = "fetching",
             !.request = FetchArguments(c, method, path, body),
             !.sent = @ + 1,
             !.timer = "armed"]

evaluate(c, op, options) ==
  LET called == [op EXCEPT !.kind = "evaluate", !.options = options]
  IN  IF ValidateOptions(options).state = "rejected"
      THEN Settle(called, ValidateOptions(options))
      ELSE request(c, called, "POST", EvaluatePath, EvaluatePayload(options))

screen(c, op, options) ==
  LET called == [op EXCEPT !.kind = "screen", !.options = options]
  IN  IF ValidateOptions(options).state = "rejected"
      THEN Settle(called, ValidateOptions(options))
      ELSE request(c, called, "POST", ScreenPath, ScreenPayload(options))

(***************************************************************************)
(* Inputs of the client.                                                   *)
(***************************************************************************)
NumOps == 2

OpIds == 1..NumOps

NoOps == [i \in OpIds |-> IdleOp]

NoClientOptions ==
  [apiKey |-> Undefined, baseUrl |-> Undefined, timeout |-> NoNumber]

\* clients without a key, with an empty key and with a key, and clients with
\* a timeout and a base URL of their own, given with and without a trailing
\* slash
ClientOptions ==
  {[NoClientOptions EXCEPT !.apiKey = k] :
     k \in {Undefined, Str(<<>>), Str(<<"k">>)}}
    \cup {[apiKey |-> Str(<<"q">>), baseUrl |-> Str(b), timeout |-> Num(5000)] :
             b \in {<<"h">>, <<"h", "/">>}}

Clients == {NopeClient(o) : o \in ClientOptions}

MessageLists ==
  {NoMessages, Messages(<<>>),
   Messages(<<[role |-> <<"u", "s", "e", "r">>, content |-> <<"h">>]>>)}

Texts == {Undefined, Str(<<>>), Str(<<"t">>)}

EvaluateOptions ==
  {[messages |-> m, text |-> t, config |-> x.config,
    userContext |-> x.userContext] :
     m \in MessageLists, t \in Texts,
     x \in {[config |-> NoConfig, userContext |-> Undefined],
            [config |-> NoConfig, userContext |-> Str(<<>>)],
            [config |-> Config(ObjA1), userContext |-> Str(<<"u">>)]}}

\* screen reads messages, text and config only; one caller passes a
\* userContext all the same
ScreenOptions ==
  {[messages |-> m, text |-> t, config |-> x.config,
    userContext |-> x.userContext] :
     m \in MessageLists, t \in Texts,
     x \in {[config |-> NoConfig, userContext |-> Undefined],
            [config |-> Config(ObjA1), userContext |-> Str(<<"u">>)]}}

Statuses == {200, 204, 302, 400, 401, 403, 404, 429, 500, 503}

RetryAfterValues ==
  {<<>>, <<"0">>, <<"3", "0">>, <<"1", ".", "5">>, <<"-", "1">>, <<"x">>,
   <<"5", " ", "x">>}

\* the status and the Retry-After header of a response: every status
\* without the header, 429 with every value of it, and a success and a
\* server error that carry it too
Responses ==
  {[status |-> s, retryAfter |-> Undefined] : s \in Statuses}
    \cup {[status |-> 429, retryAfter |-> Str(h)] : h \in RetryAfterValues}
    \cup {[status |-> s, retryAfter |-> Str(<<"3", "0">>)] : s \in {200, 500}}

ErrorBody(n) == JSONstringify(JsObject(<<[k |-> ErrorKey, v |-> n]>>))

\* response bodies: JSON (an object, a number, objects with an error
\* field) and text that is no JSON (empty, a truncated object)
JsonBodies ==
  {JSONstringify(ObjA1), <<"1">>, ErrorBody(7), ErrorBody(0),
   JSONstringify(JsObject(ObjA1.entries \o <<[k |-> ErrorKey, v |-> 30]>>))}

NonJsonBodies == {<<>>, <<"{", "\"", "a", "\"", ":", "1">>}

Bodies == JsonBodies \cup NonJsonBodies

(***************************************************************************)
(* The summary helpers: calculateSpeakerSeverity, calculateSpeakerImminence *)
(* and hasThirdPartyRisk.  A confidence (0.0-1.0) is counted in tenths.    *)
(***************************************************************************)
SEVERITY_SCORES ==
  <<[name |-> "none", score |-> 0], [name |-> "mild", score |-> 1],
    [name |-> "moderate", score |-> 2], [name |-> "high", score |-> 3],
    [name |-> "critical", score |-> 4]>>

IMMINENCE_SCORES ==
  <<[name |-> "not_applicable", score |-> 0], [name |-> "chronic", score |-> 1],
    [name |-> "subacute", score |-> 2], [name |-> "urgent", score |-> 3],
    [name |-> "emergency", score |-> 4]>>

\* SCORES[name]
ScoreOf(scores, name) ==
  scores[CHOOSE i \in 1..Len(scores) : scores[i].name = name].score

\* 0.5, in tenths
ConfidenceThreshold == 5

\* a filter that lets a confidence of exactly 0.5 in
IsSpeakerRisk_Inclusive(r) ==
  r.subject = "self" /\ r.subject_confidence >= ConfidenceThreshold

\* r.subject === 'self' && r.subject_confidence > 0.5
IsSpeakerRisk(r) ==
  r.subject = "self" /\ r.subject_confidence > ConfidenceThreshold

RECURSIVE MathMax(_)
\* Math.max(...scores) of a list that is not empty
MathMax(scores) ==
  IF Len(scores) = 1 THEN scores[1]
  ELSE LET m == MathMax(Tail(scores))
       IN  IF scores[1] > m THEN scores[1] ELSE m

\* entries.find(([, score]) => score === maxScore): the first entry with
\* that score, and the fallback when there is none
FindEntry(scores, maxScore, fallback) ==
  LET hits == {i \in 1..Len(scores) : scores[i].score = maxScore}
  IN  IF hits = {} THEN fallback
      ELSE scores[CHOOSE i \in hits : \A j \in hits : i <= j].name

calculateSpeakerSeverity(risks) ==
  LET speakerRisks == SelectSeq(risks, IsSpeakerRisk)
      maxScore == MathMax([i \in 1..Len(speakerRisks) |->
                             ScoreOf(SEVERITY_SCORES, speakerRisks[i].severity)])
  IN  IF Len(speakerRisks) = 0 THEN "none"
      ELSE FindEntry(SEVERITY_SCORES, maxScore, "none")

calculateSpeakerImminence(risks) ==
  LET speakerRisks == SelectSeq(risks, IsSpeakerRisk)
      maxScore == MathMax([i \in 1..Len(speakerRisks) |->
                             ScoreOf(IMMINENCE_SCORES, speakerRisks[i].imminence)])
  IN  IF Len(speakerRisks) = 0 THEN "not_applicable"
      ELSE FindEntry(IMMINENCE_SCORES, maxScore, "not_applicable")

\* risks.some((r) => r.subject === 'other' && r.subject_confidence > 0.5)
hasThirdPartyRisk(risks) ==
  \E i \in 1..Len(risks) :
    risks[i].subject = "other" /\ risks[i].subject_confidence > ConfidenceThreshold

\* the risks of a response and what has been calculated from them so far
NoSummary(risks) ==
  [risks |-> risks, calculated |-> {}, speaker_severity |-> "",
   speaker_imminence |-> "", any_third_party_risk |-> FALSE]

\* risks: every subject, a confidence below, at and above 0.5, and three
\* pairs of a severity and an imminence
Risks ==
  {[subject |-> s, subject_confidence |-> c, severity |-> l.severity,
    imminence |-> l.imminence] :
     s \in {"self", "other", "unknown"},
     c \in {ConfidenceThreshold - 1, ConfidenceThreshold,
            ConfidenceThreshold + 1},
     l \in {[severity |-> "mild", imminence |-> "emergency"],
            [severity |-> "critical", imminence |-> "chronic"],
            [severity |-> "high", imminence |-> "urgent"]}}

MaxRisks == 2

RiskLists == UNION {[1..n -> Risks] : n \in 0..MaxRisks}

\* a webhook delivery: the arguments one verify call is made with, signed
\* by sign for the integer timestamp t
Delivery(payload, secret, t, maxAge) ==
  [payload |-> payload, secret |-> secret, t |-> t, maxAge |-> maxAge,
   signature |-> Str(sign(payload, secret, Num(t), Now0).signature),
   timestamp |-> Str(sign(payload, secret, Num(t), Now0).timestamp)]

\* deliveries that are verified again and again as the clock advances: one
\* at the past edge of the default window, one that a window of one second
\* lets in at first, and one that starts too far in the future
Deliveries ==
  {Delivery(StringPayload(JSONstringify(ObjA1)), <<"k">>,
            Seconds0 - DefaultMaxAgeSeconds, NoNumber),
   Delivery(ObjectPayload(ObjA1B2), <<"q">>, Seconds0, Num(1)),
   Delivery(StringPayload(JSONstringify(ObjA1)), <<"k">>,
            Seconds0 + DefaultMaxAgeSeconds + 1, Num(DefaultMaxAgeSeconds))}

\* how often a delivery is counted in the history (MaxRepeats stands for
\* MaxRepeats times or more)
MaxRepeats == 2

NoLog == [d \in Deliveries |-> [accepted |-> 0, rejected |-> 0]]

Bump(n) == IF n < MaxRepeats THEN n + 1 ELSE n

Init ==
  /\ now = Now0
  /\ call = NoCall
  /\ log = NoLog
  /\ client = NopeClient(NoClientOptions)
  /\ ops = NoOps
  /\ summary = NoSummary(<<>>)

\* the clock advances
Tick ==
  /\ call.op = "none"
  /\ now < Now0 + MaxTicks * TickMs
  /\ now' = now + TickMs
  /\ UNCHANGED <<call, log, client, ops, summary>>

VerifyCall ==
  /\ call.op = "none"
  /\ \E payload \in Payloads, timestamp \in TimestampHeaders, secret \in Secrets,
        maxAge \in MaxAges :
       \E signature \in SignatureHeaders(payload, timestamp, secret, now) :
         call' = [NoCall EXCEPT
                    !.op = "verify", !.payload = payload,
                    !.signature = signature, !.timestamp = timestamp,
                    !.secret = secret, !.maxAge = maxAge,
                    !.result = verify(payload, signature, timestamp, secret,
                                      maxAge, now)]
  /\ UNCHANGED <<now, log, client, ops, summary>>

SignCall ==
  /\ call.op = "none"
  /\ \E payload \in Payloads, secret \in Secrets, timestamp \in SignTimestamps :
       call' = [NoCall EXCEPT
                  !.op = "sign", !.payload = payload, !.secret = secret,
                  !.signTimestamp = timestamp,
                  !.signed = sign(payload, secret, timestamp, now)]
  /\ UNCHANGED <<now, log, client, ops, summary>>

\* the caller is done with the result of the call
Complete ==
  /\ call.op # "none"
  /\ call' = NoCall
  /\ UNCHANGED <<now, log, client, ops, summary>>

Next == Tick \/ VerifyCall \/ SignCall \/ Complete

Spec == Init /\ [][Next]_vars

(***************************************************************************)
(* Repeated deliveries: the same webhooks are verified any number of times *)
(* while the clock advances; log counts how each was answered so far.      *)
(***************************************************************************)
Deliver ==
  /\ call.op = "none"
  /\ \E d \in Deliveries :
       LET result == verify(d.payload, d.signature, d.timestamp, d.secret,
                            d.maxAge, now)
       IN  /\ call' = [NoCall EXCEPT
                         !.op = "verify", !.payload = d.payload,
                         !.signature = d.signature, !.timestamp = d.timestamp,
                         !.secret = d.secret, !.maxAge = d.maxAge,
                         !.result = result]
           /\ log' = [log EXCEPT
                        ![d] = IF result.outcome = "return"
                               THEN [@ EXCEPT !.accepted = Bump(@)]
                               ELSE [@ EXCEPT !.rejected = Bump(@)]]
  /\ UNCHANGED <<now, client, ops, summary>>

ReplayNext == Tick \/ Deliver \/ Complete

ReplaySpec == Init /\ [][ReplayNext]_vars

(***************************************************************************)
(* The client: one operation at a time is called on a NopeClient; the      *)
(* network answers, fails or stalls, and the timeout elapses, in any       *)
(* order.                                                                  *)
(***************************************************************************)
ClientInit ==
  /\ now = Now0
  /\ call = NoCall
  /\ log = NoLog
  /\ client \in Clients
  /\ ops = NoOps
  /\ summary = NoSummary(<<>>)

AllIdle == \A j \in OpIds : ops[j].pc = "idle"

EvaluateCall ==
  /\ AllIdle
  /\ \E i \in OpIds, options \in EvaluateOptions :
       ops' = [ops EXCEPT ![i] = evaluate(client, IdleOp, options)]
  /\ UNCHANGED <<now, call, log, client, summary>>

ScreenCall ==
  /\ AllIdle
  /\ \E i \in OpIds, options \in ScreenOptions :
       ops' = [ops EXCEPT ![i] = screen(client, IdleOp, options)]
  /\ UNCHANGED <<now, call, log, client, summary>>

\* this.timeout milliseconds have passed since the request started: an
\* armed timer fires, controller.abort() makes the pending fetch reject
\* with an AbortError and the catch block wraps it; a cleared timer does
\* nothing
TimeoutElapses ==
  /\ \E i \in OpIds :
       /\ ops[i].pc \in {"fetching", "reading"}
       /\ ~ops[i].elapsed
       /\ ops' = [j \in OpIds |->
                    LET fires == ops[i].timer = "armed"
                        op == IF j = i
                              THEN [ops[j] EXCEPT
                                      !.elapsed = TRUE,
                                      !.timer = IF fires THEN "fired" ELSE @]
                              ELSE ops[j]
                    IN  IF fires /\ Aborts(i, j) /\ op.pc = "fetching"
                        THEN Settle([op EXCEPT !.timer = clearTimeout(@)],
                                    NopeConnectionError(
                                      TimedOut(client.timeout), AbortError))
                        ELSE op]
  /\ UNCHANGED <<now, call, log, client, summary>>

\* fetch resolves with the status line and the headers of the response;
\* the timer is cleared and handleResponse starts to read the body
FetchResolves ==
  /\ \E i \in OpIds, r \in Responses :
       /\ ops[i].pc = "fetching"
       /\ ops' = [ops EXCEPT ![i] =
                    [@ EXCEPT !.pc = "reading", !.timer = clearTimeout(@),
                              !.response = [status |-> r.status,
                                            retryAfter |-> r.retryAfter,
                                            text |-> Undefined]]]
  /\ UNCHANGED <<now, call, log, client, summary>>

\* fetch rejects: the catch block clears the timer and wraps the error
FetchFails ==
  /\ \E i \in OpIds :
       /\ ops[i].pc = "fetching"
       /\ ops' = [ops EXCEPT ![i] =
                    Settle([@ EXCEPT !.timer = clearTimeout(@),
                                     !.transport = FetchFailed],
                           NopeConnectionError(
                             FailedToConnect(client.baseUrl,
                                             FetchFailed.message),
                             FetchFailed))]
  /\ UNCHANGED <<now, call, log, client, summary>>

\* response.text() resolves and handleResponse runs to its end; request
\* has returned its promise already, so what it throws is not caught there
BodyArrives ==
  /\ \E i \in OpIds, text \in Bodies :
       /\ ops[i].pc = "reading"
       /\ ops' = [ops EXCEPT ![i] =
                    Settle([@ EXCEPT !.response.text = Str(text)],
                           handleResponse(@.response.status,
                                          @.response.retryAfter, text))]
  /\ UNCHANGED <<now, call, log, client, summary>>

\* response.text() rejects: nothing in handleResponse or request catches it
BodyFails ==
  /\ \E i \in OpIds :
       /\ ops[i].pc = "reading"
       /\ ops' = [ops EXCEPT ![i] =
                    Settle([@ EXCEPT !.transport = BodyTerminated],
                           Escapes(BodyTerminated))]
  /\ UNCHANGED <<now, call, log, client, summary>>

\* the caller is done with the settled promise
Forget ==
  /\ \E i \in OpIds :
       /\ ops[i].pc = "done"
       /\ ops' = [ops EXCEPT ![i] = IdleOp]
  /\ UNCHANGED <<now, call, log, client, summary>>

ClientNext ==
  \/ EvaluateCall
  \/ ScreenCall
  \/ TimeoutElapses
  \/ FetchResolves
  \/ FetchFails
  \/ BodyArrives
  \/ BodyFails
  \/ Forget

ClientSpec == ClientInit /\ [][ClientNext]_vars

(***************************************************************************)
(* Concurrent calls: the operations of one client are called and proceed   *)
(* in any interleaving.                                                    *)
(***************************************************************************)
ConcurrentInit ==
  /\ now = Now0
  /\ call = NoCall
  /\ log = NoLog
  /\ client = NopeClient(NoClientOptions)
  /\ ops = NoOps
  /\ summary = NoSummary(<<>>)

\* the options of the concurrent calls
ConcurrentOptions == [NoOptions EXCEPT !.text = Str(<<"t">>)]

\* what the server answers to the concurrent calls
ConcurrentResponses ==
  {[status |-> s, retryAfter |-> Undefined] : s \in {200, 500}}

ConcurrentBodies == {JSONstringify(ObjA1), <<>>}

ConcurrentCall ==
  /\ \E i \in OpIds :
       /\ ops[i].pc = "idle"
       /\ \/ ops' = [ops EXCEPT ![i] =
                       evaluate(client, IdleOp, ConcurrentOptions)]
          \/ ops' = [ops EXCEPT ![i] =
                       screen(client, IdleOp, ConcurrentOptions)]
  /\ UNCHANGED <<now, call, log, client, summary>>

ConcurrentFetchResolves ==
  /\ \E i \in OpIds, r \in ConcurrentResponses :
       /\ ops[i].pc = "fetching"
       /\ ops' = [ops EXCEPT ![i] =
                    [@ EXCEPT !.pc = "reading", !.timer = clearTimeout(@),
                              !.response = [status |-> r.status,
                                            retryAfter |-> r.retryAfter,
                                            text |-> Undefined]]]
  /\ UNCHANGED <<now, call, log, client, summary>>

ConcurrentBodyArrives ==
  /\ \E i \in OpIds, text \in ConcurrentBodies :
       /\ ops[i].pc = "reading"
       /\ ops' = [ops EXCEPT ![i] =
                    Settle([@ EXCEPT !.response.text = Str(text)],
                           handleResponse(@.response.status,
                                          @.response.retryAfter, text))]
  /\ UNCHANGED <<now, call, log, client, summary>>

ConcurrentNext ==
  \/ ConcurrentCall
  \/ TimeoutElapses
  \/ ConcurrentFetchResolves
  \/ FetchFails
  \/ ConcurrentBodyArrives
  \/ BodyFails
  \/ Forget

ConcurrentSpec == ConcurrentInit /\ [][ConcurrentNext]_vars

(***************************************************************************)
(* The summary helpers applied to lists of risks.                          *)
(***************************************************************************)
SummaryInit ==
  /\ now = Now0
  /\ call = NoCall
  /\ log = NoLog
  /\ client = NopeClient(NoClientOptions)
  /\ ops = NoOps
  /\ summary \in {NoSummary(risks) : risks \in RiskLists}

CalculateSeverity ==
  /\ "speaker_severity" \notin summary.calculated
  /\ summary' = [summary EXCEPT
                   !.calculated = @ \cup {"speaker_severity"},
                   !.speaker_severity =
                     calculateSpeakerSeverity(summary.risks)]
  /\ UNCHANGED <<now, call, log, client, ops>>

CalculateImminence ==
  /\ "speaker_imminence" \notin summary.calculated
  /\ summary' = [summary EXCEPT
                   !.calculated = @ \cup {"speaker_imminence"},
                   !.speaker_imminence =
                     calculateSpeakerImminence(summary.risks)]
  /\ UNCHANGED <<now, call, log, client, ops>>

CheckThirdPartyRisk ==
  /\ "any_third_party_risk" \notin summary.calculated
  /\ summary' = [summary EXCEPT
                   !.calculated = @ \cup {"any_third_party_risk"},
                   !.any_third_party_risk = hasThirdPartyRisk(summary.risks)]
  /\ UNCHANGED <<now, call, log, client, ops>>

SummaryNext == CalculateSeverity \/ CalculateImminence \/ CheckThirdPartyRisk

SummarySpec == SummaryInit /\ [][SummaryNext]_vars

(***************************************************************************)
(* Properties.                                                             *)
(***************************************************************************)
Abs(n) == IF n < 0 THEN -n ELSE n

Verifying == call.op = "verify"

\* the window of the call: options.maxAgeSeconds, 300 when omitted
WindowOfCall == IF call.maxAge.def THEN call.maxAge.n ELSE 300

\* the call's signature and timestamp headers are what sign returns for the
\* call's payload and secret and the timestamp argument t
SignedWith(t) ==
  LET s == sign(call.payload, call.secret, t, now)
  IN  call.signature = Str(s.signature) /\ call.timestamp = Str(s.timestamp)

\* the JSON value each text of JsonTexts denotes
JsonMeaning(text) ==
  CASE text = JSONstringify(ObjA1) -> ObjA1
    [] text = JSONstringify(ObjA1B2) -> ObjA1B2
    [] text = <<"{", " ", "\"", "a", "\"", ":", "1", "}">> -> ObjA1
    [] text = <<"1">> -> JsNumber(1)

IsJsonPayload(payload) == payload.kind = "object" \/ payload.str \in JsonTexts

MeaningOfPayload(payload) ==
  IF payload.kind = "object" THEN payload.val ELSE JsonMeaning(payload.str)

SignedWithinWindow(t) ==
  /\ SignedWith(t)
  /\ call.secret # <<>>
  /\ Abs(EpochSeconds(now) - SignTimestamp(t, now)) <= WindowOfCall

\* C1 as stated: for every payload (any string or object), non-empty secret
\* and integer timestamp t within maxAgeSeconds of now, verifying what sign
\* produced succeeds and returns the payload.
C1_RoundTripAnyPayload ==
  Verifying =>
    \A t \in SignTimestamps :
      SignedWithinWindow(t) => call.result.outcome = "return"

\* C1 (amended): for every payload that is an object or a string holding JSON
\* text, every non-empty secret and every integer timestamp t within
\* maxAgeSeconds of now, verify(payload, sign(payload, secret, t).signature,
\* sign(payload, secret, t).timestamp, secret) returns the payload: the value
\* the JSON text denotes for a string, the object itself for an object.
C1_RoundTrip ==
  Verifying =>
    \A t \in SignTimestamps :
      (SignedWithinWindow(t) /\ IsJsonPayload(call.payload))
        => call.result = Return(MeaningOfPayload(call.payload))

\* a string payload with two properties, signed at the past edge of the
\* default window, is returned parsed
C1_Witness ==
  /\ Verifying
  /\ call.payload = StringPayload(JSONstringify(ObjA1B2))
  /\ call.maxAge = NoNumber
  /\ SignedWithinWindow(Num(EpochSeconds(now) - 300))
  /\ call.result = Return(ObjA1B2)

\* the call passed signature verification
Verified == call.result.error # "WebhookSignatureError"

\* verify rejects the call's arguments with these three replaced
Rejects(payload, signature, timestamp) ==
  verify(payload, signature, timestamp, call.secret, call.maxAge, now).error
    = "WebhookSignatureError"

\* the digest of the call's timestamp header, "." and payload string
DigestOfCall ==
  HmacSha256Hex(call.secret,
                call.timestamp.s \o <<".">> \o PayloadString(call.payload))

\* a and b are the same signature with and without the leading tag
SameUpToTag(a, b) == a = b \/ a = Sha256Prefix \o b \/ b = Sha256Prefix \o a

PayloadChangesRejected ==
  \A p \in Payloads :
    PayloadString(p) # PayloadString(call.payload)
      => Rejects(p, call.signature, call.timestamp)

TimestampChangesRejected ==
  \A t \in TimestampHeaders :
    t # call.timestamp => Rejects(call.payload, call.signature, t)

\* C2 as stated: from a triple that verifies, changing any one of the payload,
\* the signature or the timestamp string causes rejection.
C2_AnyChangeRejected ==
  (Verifying /\ Verified) =>
    /\ PayloadChangesRejected
    /\ TimestampChangesRejected
    /\ \A s \in SignatureHeaders(call.payload, call.timestamp, call.secret, now) :
         s # call.signature => Rejects(call.payload, s, call.timestamp)

\* C2 (amended): from a triple that verifies under a secret, changing the
\* payload string, the timestamp string, or the signature in any way other
\* than adding or removing its leading "sha256=" tag causes rejection; a
\* signature is accepted only when it is the digest of exactly
\* timestamp + "." + payload.
C2_TamperRejected ==
  (Verifying /\ Verified) =>
    /\ PayloadChangesRejected
    /\ TimestampChangesRejected
    /\ \A s \in SignatureHeaders(call.payload, call.timestamp, call.secret, now) :
         ~SameUpToTag(s.s, call.signature.s)
           => Rejects(call.payload, s, call.timestamp)
    /\ SameUpToTag(call.signature.s, DigestOfCall)

\* an accepted object payload whose altered signature, altered payload and
\* altered timestamp are each rejected
C2_Witness ==
  /\ Verifying
  /\ call.result = Return(ObjA1)
  /\ call.timestamp = Str(String(EpochSeconds(now)))
  /\ Rejects(call.payload, Str(Sha256Prefix \o AlterFirst(DigestOfCall)),
             call.timestamp)
  /\ Rejects(ObjectPayload(ObjA1B2), call.signature, call.timestamp)
  /\ Rejects(call.payload, call.signature,
             Str(<<" ">> \o String(EpochSeconds(now))))

FreshnessTexts == {TooOld(0, 0).text, TooFarInFuture(0, 0).text}

\* the value is present: defined and not the empty string
Present(o) == o.def /\ o.s # <<>>

\* C3: with maxAgeSeconds = 300, given or defaulted, a call whose signature,
\* timestamp and secret are present and whose timestamp is the integer n is
\* rejected as too old when now - n >= 301, as too far in the future when
\* n - now >= 301, and is not rejected on freshness when |now - n| <= 300.
C3_FreshnessWindow ==
  (/\ Verifying
   /\ call.maxAge \in {NoNumber, Num(300)}
   /\ Present(call.signature)
   /\ call.secret # <<>>) =>
    \A n \in TimestampNums :
      call.timestamp = Str(String(n)) =>
        LET age == EpochSeconds(now) - n
        IN  /\ age >= 301
                 => call.result = WebhookSignatureError(TooOld(age, 300))
            /\ -age >= 301
                 => call.result
                      = WebhookSignatureError(TooFarInFuture(-age, 300))
            /\ Abs(age) <= 300
                 => call.result.message.text \notin FreshnessTexts

\* a timestamp exactly 300 seconds ahead of the clock is accepted under the
\* default window
C3_Witness ==
  /\ Verifying
  /\ call.maxAge = NoNumber
  /\ call.timestamp = Str(String(EpochSeconds(now) + 300))
  /\ call.result.outcome = "return"

\* C4: with maxAgeSeconds = 0 no call is rejected on freshness, and what sign
\* produced for any integer timestamp passes verification under a non-empty
\* secret, the payload being returned when it is an object or JSON text.
C4_NoFreshnessCheck ==
  (Verifying /\ call.maxAge = Num(0)) =>
    /\ call.result.message.text \notin FreshnessTexts
    /\ \A t \in SignTimestamps :
         (SignedWith(t) /\ call.secret # <<>>) =>
           /\ Verified
           /\ IsJsonPayload(call.payload)
                => call.result = Return(MeaningOfPayload(call.payload))

\* a payload signed for a timestamp before the epoch is accepted
C4_Witness ==
  /\ Verifying
  /\ call.maxAge = Num(0)
  /\ SignedWith(Num(-1))
  /\ call.result.outcome = "return"

\* C5 as stated: each missing field is rejected with the message of that
\* field, whatever the other arguments are.
C5_OwnMessageAlways ==
  Verifying =>
    /\ ~Present(call.signature)
         => call.result = WebhookSignatureError(MissingSignature)
    /\ ~Present(call.timestamp)
         => call.result = WebhookSignatureError(MissingTimestamp)
    /\ call.secret = <<>>
         => call.result = WebhookSignatureError(SecretRequired)

\* C5 (amended): a missing or empty signature, a missing or empty timestamp
\* and an empty secret each make verify throw WebhookSignatureError,
\* whatever the other arguments are; the message is that of the first such
\* field in the order signature, timestamp, secret (three distinct messages).
C5_MissingField ==
  Verifying =>
    /\ ~Present(call.signature)
         => call.result = WebhookSignatureError(MissingSignature)
    /\ (Present(call.signature) /\ ~Present(call.timestamp))
         => call.result = WebhookSignatureError(MissingTimestamp)
    /\ (Present(call.signature) /\ Present(call.timestamp) /\ call.secret = <<>>)
         => call.result = WebhookSignatureError(SecretRequired)
    /\ Cardinality({MissingSignature, MissingTimestamp, SecretRequired}) = 3

\* an empty timestamp header is reported although the secret is empty too
C5_Witness ==
  /\ Verifying
  /\ Present(call.signature)
  /\ call.timestamp = Str(<<>>)
  /\ call.secret = <<>>
  /\ call.result = WebhookSignatureError(MissingTimestamp)

\* C6: every call of verify returns a payload or throws
\* WebhookSignatureError; no other exception escapes it.
C6_TwoOutcomes ==
  Verifying =>
    \/ call.result.outcome = "return"
    \/ call.result.error = "WebhookSignatureError"

\* the call's signature, timestamp and secret are present and its timestamp
\* is a decimal integer inside the call's window (or the window is disabled)
FreshCall ==
  /\ Present(call.signature)
  /\ call.secret # <<>>
  /\ \E n \in TimestampNums :
       /\ call.timestamp = Str(String(n))
       /\ WindowOfCall = 0 \/ Abs(EpochSeconds(now) - n) <= WindowOfCall

\* the results of verify for the call's timestamp, options and clock with a
\* wrong secret, an altered payload, or an altered signature (of the right
\* or of the wrong length)
MismatchResults ==
  {verify(call.payload, call.signature, call.timestamp, k, call.maxAge, now) :
     k \in (Secrets \ {<<>>, call.secret})}
  \cup {verify(p, call.signature, call.timestamp, call.secret, call.maxAge, now) :
          p \in {q \in Payloads : PayloadString(q) # PayloadString(call.payload)}}
  \cup {verify(call.payload, s, call.timestamp, call.secret, call.maxAge, now) :
          s \in {h \in SignatureHeaders(call.payload, call.timestamp,
                                        call.secret, now) :
                   Present(h) /\ ~SameUpToTag(h.s, call.signature.s)}}

\* C7: for a fixed fresh timestamp, window and clock, a wrong secret, an
\* altered payload, an altered signature and a signature of the wrong length
\* are all rejected with WebhookSignatureError and the identical message.
C7_UniformRejection ==
  (Verifying /\ FreshCall /\ Verified) =>
    /\ \A r \in MismatchResults : r.error = "WebhookSignatureError"
    /\ \A r1, r2 \in MismatchResults : r1.message = r2.message

\* from an accepted call, the wrong secret and a truncated signature are
\* rejected with one and the same message
C7_Witness ==
  /\ Verifying
  /\ FreshCall
  /\ call.result.outcome = "return"
  /\ verify(call.payload, call.signature, call.timestamp,
            OtherSecret(call.secret), call.maxAge, now)
       = verify(call.payload,
                Str(Sha256Prefix \o SubSeq(DigestOfCall, 1, HexLen - 1)),
                call.timestamp, call.secret, call.maxAge, now)
  /\ Cardinality(MismatchResults) = 1

\* the signature header without one leading tag
Received ==
  IF HasPrefix(call.signature.s, Sha256Prefix)
  THEN SubSeq(call.signature.s, Len(Sha256Prefix) + 1, Len(call.signature.s))
  ELSE call.signature.s

\* C8: in a call that reaches the comparison, a received signature as long as
\* the expected digest but not equal to it is rejected, and one of another
\* length (the empty rest of a bare "sha256=" included) is rejected too, both
\* with WebhookSignatureError: the length-mismatch exception does not escape.
C8_ComparisonRejects ==
  (Verifying /\ FreshCall) =>
    /\ (Len(Received) = Len(DigestOfCall) /\ Received # DigestOfCall)
         => call.result = WebhookSignatureError(VerificationFailed)
    /\ Len(Received) # Len(DigestOfCall)
         => call.result = WebhookSignatureError(VerificationFailed)

\* a bare "sha256=" header is rejected as a failed verification
C8_Witness ==
  /\ Verifying
  /\ FreshCall
  /\ call.signature = Str(Sha256Prefix)
  /\ call.result = WebhookSignatureError(VerificationFailed)

\* C9: one leading "sha256=" is stripped before the comparison: the verdict
\* for "sha256=" + x equals the verdict for x when x has no such prefix, the
\* correct digest is accepted with and without the tag, and a doubled tag is
\* not accepted.
C9_PrefixStripped ==
  (Verifying /\ call.signature.def) =>
    /\ ~HasPrefix(call.signature.s, Sha256Prefix)
         => verify(call.payload, Str(Sha256Prefix \o call.signature.s),
                   call.timestamp, call.secret, call.maxAge, now).outcome
              = call.result.outcome
    /\ (FreshCall /\ SameUpToTag(call.signature.s, DigestOfCall)) => Verified
    /\ call.signature.s = Sha256Prefix \o Sha256Prefix \o DigestOfCall
         => call.result.error = "WebhookSignatureError"

\* the bare digest is accepted, and so is the same digest with the tag
C9_Witness ==
  /\ Verifying
  /\ call.signature = Str(DigestOfCall)
  /\ call.result.outcome = "return"
  /\ verify(call.payload, Str(Sha256Prefix \o DigestOfCall), call.timestamp,
            call.secret, call.maxAge, now) = call.result

\* C10: sign returns "sha256=" followed by the hex HMAC-SHA256 of
\* "<ts>.<payload string>" and the decimal string of ts, ts being the
\* supplied timestamp or, when it is omitted, the current time in whole
\* seconds (the s with 1000 s <= Date.now() < 1000 (s + 1)).
C10_SignResult ==
  call.op = "sign" =>
    \E ts \in TimestampNums \cup ((now \div 1000) - 1 .. (now \div 1000) + 1) :
      /\ call.signTimestamp.def => ts = call.signTimestamp.n
      /\ ~call.signTimestamp.def => (1000 * ts <= now /\ now < 1000 * (ts + 1))
      /\ call.signed.timestamp = String(ts)
      /\ call.signed.signature
           = Sha256Prefix
               \o HmacSha256Hex(call.secret,
                                String(ts) \o <<".">> \o PayloadString(call.payload))

\* an object signed without a timestamp after the clock has advanced
C10_Witness ==
  /\ call.op = "sign"
  /\ ~call.signTimestamp.def
  /\ now > Now0
  /\ call.payload = ObjectPayload(ObjB2A1)
  /\ call.signed.timestamp = String(now \div 1000)
  /\ Len(call.signed.signature) = Len(Sha256Prefix) + HexLen

\* the timestamp header is an integer in decimal and nothing else: digits
\* only, after an optional sign and leading white space
DecimalTimestamp ==
  LET s == call.timestamp.s
      i == SkipWs(s, 1)
      j == IF i <= Len(s) /\ s[i] \in {"-", "+"} THEN i + 1 ELSE i
      k == DigitsEnd(s, j)
  IN  k > j /\ k > Len(s)

\* C11: a call whose signature, timestamp and secret are present and whose
\* timestamp header is not the decimal representation of an integer is
\* rejected with 'Invalid timestamp format', whatever its signature is.
C11_NonDecimalRejected ==
  (/\ Verifying
   /\ Present(call.signature)
   /\ Present(call.timestamp)
   /\ call.secret # <<>>
   /\ ~DecimalTimestamp) =>
    call.result = WebhookSignatureError(InvalidTimestamp)

\* the delivery the call is made with
DeliveryOfCall(d) ==
  /\ call.payload = d.payload
  /\ call.signature = d.signature
  /\ call.timestamp = d.timestamp
  /\ call.secret = d.secret
  /\ call.maxAge = d.maxAge

Called(i) == ops[i].pc # "idle"

\* exactly one of messages and text is defined in the options of the call
ExactlyOneDefined(i) ==
  ops[i].options.messages.def # ops[i].options.text.def

\* the operation has received a whole response: status, headers and body
Responded(i) == ops[i].pc = "done" /\ ops[i].response.text.def

SuccessStatus(i) == ops[i].response.status \in 200..299

\* the values the payload of the request has under a key
Sent(i, key) ==
  {ops[i].request.payload[n].v :
     n \in {m \in 1..Len(ops[i].request.payload) :
              ops[i].request.payload[m].k = key}}

\* C13: evaluate and screen issue no HTTP request and reject with an Error
\* when messages and text are both undefined or both defined, and issue a
\* request that carries the defined one, empty or not, when exactly one of
\* them is defined.
C13_LocalValidation ==
  \A i \in OpIds :
    Called(i) =>
      LET o == ops[i].options
      IN  /\ (~o.messages.def /\ ~o.text.def)
               => /\ ops[i].sent = 0
                  /\ ops[i].outcome = Error(NeitherProvided)
          /\ (o.messages.def /\ o.text.def)
               => /\ ops[i].sent = 0
                  /\ ops[i].outcome = Error(BothProvided)
          /\ ExactlyOneDefined(i)
               => /\ ops[i].sent = 1
                  /\ o.messages.def
                       => Sent(i, MessagesKey) = {ArrayValue(o.messages.items)}
                  /\ o.text.def => Sent(i, TextKey) = {StringValue(o.text.s)}

\* a call with an empty messages array and an empty text is rejected locally
C13_Witness ==
  \E i \in OpIds :
    /\ ops[i].pc = "done"
    /\ ops[i].options.messages = Messages(<<>>)
    /\ ops[i].options.text = Str(<<>>)
    /\ ops[i].sent = 0
    /\ ops[i].outcome.state = "rejected"

\* C14: an operation that received a response with a non-success status
\* rejects with the one error class its status gives: 401 NopeAuthError,
\* 400 NopeValidationError, 429 NopeRateLimitError, 500 and above
\* NopeServerError, anything else NopeError; never NopeConnectionError.
C14_KindByStatus ==
  \A i \in OpIds :
    (Responded(i) /\ ~SuccessStatus(i)) =>
      LET status == ops[i].response.status
      IN  /\ ops[i].outcome.state = "rejected"
          /\ ops[i].outcome.error =
               (IF status = 401 THEN "NopeAuthError"
                ELSE IF status = 400 THEN "NopeValidationError"
                ELSE IF status = 429 THEN "NopeRateLimitError"
                ELSE IF status >= 500 THEN "NopeServerError"
                ELSE "NopeError")
          /\ ~ops[i].outcome.originalError.def

\* a 503 response has given a NopeServerError
C14_Witness ==
  \E i \in OpIds :
    /\ Responded(i)
    /\ ops[i].response.status = 503
    /\ ops[i].outcome.error = "NopeServerError"

\* C15: the NopeRateLimitError of a 429 response has retryAfter undefined
\* when there is no Retry-After header and the header's number of seconds
\* times 1000 when the header is a number (30 gives 30000).
C15_RetryAfterMilliseconds ==
  \A i \in OpIds :
    (Responded(i) /\ ops[i].response.status = 429) =>
      LET header == ops[i].response.retryAfter
          Is(ms) == ops[i].outcome.retryAfter =
                      [def |-> TRUE, nan |-> FALSE, ms |-> ms]
      IN  /\ ops[i].outcome.error = "NopeRateLimitError"
          /\ ~header.def => ~ops[i].outcome.retryAfter.def
          /\ header = Str(<<"3", "0">>) => Is(30000)
          /\ header = Str(<<"1", ".", "5">>) => Is(1500)
          /\ header = Str(<<"0">>) => Is(0)

\* a 429 response with Retry-After: 30 has given retryAfter = 30000
C15_Witness ==
  \E i \in OpIds :
    /\ Responded(i)
    /\ ops[i].response.status = 429
    /\ ops[i].response.retryAfter = Str(<<"3", "0">>)
    /\ ops[i].outcome.retryAfter.ms = 30000

\* C16: an operation that was not complete when its timeout elapsed has
\* been aborted and has rejected with the NopeConnectionError that names
\* the timeout; it is never pending beyond the timeout.
C16_NeverPendingBeyondTimeout ==
  \A i \in OpIds :
    ops[i].elapsed =>
      /\ ops[i].pc = "done"
      /\ ops[i].outcome =
           NopeConnectionError(TimedOut(client.timeout), AbortError)

\* C17: an operation whose transport failed, in the fetch call or while
\* the body was read, rejects with a NopeConnectionError that carries the
\* original error.
C17_TransportFailureWrapped ==
  \A i \in OpIds :
    ops[i].transport.def =>
      /\ ops[i].outcome.error = "NopeConnectionError"
      /\ ops[i].outcome.originalError = ops[i].transport

\* C18: a success response whose body is no JSON rejects the operation
\* with NopeError('Invalid JSON response') carrying the status and the raw
\* body; a success response never fulfils the operation with undefined.
C18_InvalidJsonRejected ==
  \A i \in OpIds :
    (Responded(i) /\ SuccessStatus(i)) =>
      /\ ops[i].response.text.s \in NonJsonBodies
           => ops[i].outcome =
                NopeError(InvalidJsonResponse, Num(ops[i].response.status),
                          ops[i].response.text)
      /\ ops[i].outcome.state = "fulfilled"
           => /\ ops[i].response.text.s \in JsonBodies
              /\ ops[i].outcome.value.type # "undefined"

\* a 204 response with an empty body has given 'Invalid JSON response'
C18_Witness ==
  \E i \in OpIds :
    /\ Responded(i)
    /\ ops[i].response.status = 204
    /\ ops[i].response.text = Str(<<>>)
    /\ ops[i].outcome.error = "NopeError"
    /\ ops[i].outcome.message = InvalidJsonResponse

\* C19: a call issues at most one HTTP request: exactly one once its
\* options have passed validation, whatever its outcome, and none when
\* they have not.
C19_OneRequestPerCall ==
  \A i \in OpIds :
    /\ ops[i].sent <= 1
    /\ Called(i) => ops[i].sent = (IF ExactlyOneDefined(i) THEN 1 ELSE 0)

\* a call has ended in a server error after its one request
C19_Witness ==
  \E i \in OpIds :
    /\ ops[i].pc = "done"
    /\ ops[i].outcome.error = "NopeServerError"
    /\ ops[i].sent = 1

\* C20: a request that was sent has Content-Type application/json, and
\* has Authorization, with the value 'Bearer ' followed by the key, exactly
\* when the client has an apiKey that is neither undefined nor empty.
C20_RequestHeaders ==
  \A i \in OpIds :
    ops[i].sent > 0 =>
      LET headers == ops[i].request.headers
      IN  /\ headers.contentType = Str(ApplicationJson)
          /\ headers.authorization.def
               <=> (client.apiKey.def /\ client.apiKey.s # <<>>)
          /\ headers.authorization.def
               => headers.authorization.s = Bearer \o client.apiKey.s

\* a client with an empty apiKey has sent a request without Authorization
C20_Witness ==
  \E i \in OpIds :
    /\ ops[i].sent > 0
    /\ client.apiKey = Str(<<>>)
    /\ ~ops[i].request.headers.authorization.def

\* C21: a request goes, with method POST, to the base URL the client was
\* given (https://api.nope.net when none was given) without its trailing
\* slash, followed by /v1/evaluate for evaluate and /v1/screen for screen;
\* the path's slash is never preceded by another slash.
C21_RequestUrl ==
  \A i \in OpIds :
    ops[i].sent > 0 =>
      \A o \in ClientOptions :
        client = NopeClient(o) =>
          LET given == IF o.baseUrl.def THEN o.baseUrl.s ELSE DEFAULT_BASE_URL
              base == IF given[Len(given)] = "/"
                      THEN SubSeq(given, 1, Len(given) - 1) ELSE given
              path == IF ops[i].kind = "evaluate" THEN EvaluatePath
                      ELSE ScreenPath
              url == ops[i].request.url
          IN  /\ ops[i].request.method = "POST"
              /\ url = base \o path
              /\ url[Len(url) - Len(path)] # "/"

\* a client given the base URL 'h/' has sent a screen request to h/v1/screen
C21_Witness ==
  \E i \in OpIds :
    /\ ops[i].sent > 0
    /\ ops[i].kind = "screen"
    /\ client = NopeClient([apiKey |-> Str(<<"q">>),
                            baseUrl |-> Str(<<"h", "/">>),
                            timeout |-> Num(5000)])
    /\ ops[i].request.url = <<"h">> \o ScreenPath

\* C22: in every step of concurrent operations the client's fields stay as
\* they are and at most one operation changes: no call's timeout, failure
\* or completion aborts, fails or changes another call.
C22_CallsIndependent ==
  [][/\ client' = client
     /\ \A i, j \in OpIds :
          (i # j /\ ops'[i] # ops[i]) => ops'[j] = ops[j]]_vars

\* one call has timed out while another, in flight at that time, went on
\* and got its response
C22_Witness ==
  \E i, j \in OpIds :
    /\ i # j
    /\ ops[i].pc = "done"
    /\ ops[i].outcome.originalError = AbortError
    /\ ops[j].pc = "reading"
    /\ ~ops[j].elapsed

\* C27: the timer of an operation is armed exactly while its fetch call is
\* pending: it is cleared when the body is being read, no operation that
\* has completed has an armed timer, and a timer that has fired did so
\* before any response was received.
C27_TimerCleared ==
  \A i \in OpIds :
    /\ ops[i].timer = "armed" <=> ops[i].pc = "fetching"
    /\ ops[i].pc = "reading" => ops[i].timer = "cleared"
    /\ ops[i].pc = "done" => ops[i].timer \in {"none", "cleared", "fired"}
    /\ ops[i].timer = "fired" => ops[i].response = NoResponse

\* an operation has completed with a rejected fetch call and a cleared timer
C27_Witness ==
  \E i \in OpIds :
    /\ ops[i].pc = "done"
    /\ ops[i].transport = FetchFailed
    /\ ops[i].timer = "cleared"

\* the risks that count for the speaker: subject 'self' with a confidence
\* above 0.5
SpeakerRisks ==
  {i \in 1..Len(summary.risks) :
     /\ summary.risks[i].subject = "self"
     /\ summary.risks[i].subject_confidence > 5}

SeverityScale == <<"none", "mild", "moderate", "high", "critical">>

ImminenceScale ==
  <<"not_applicable", "chronic", "subacute", "urgent", "emergency">>

\* the position of a level on its scale
Rank(scale, level) == CHOOSE n \in 1..Len(scale) : scale[n] = level

\* C23: calculateSpeakerSeverity and calculateSpeakerImminence give the
\* highest level, on their scales, among the risks with subject 'self' and
\* a confidence strictly above 0.5, and 'none' / 'not_applicable' when
\* there is no such risk; no other risk has a part in the result.
C23_SpeakerLevels ==
  /\ "speaker_severity" \in summary.calculated =>
       IF SpeakerRisks = {} THEN summary.speaker_severity = "none"
       ELSE /\ \E i \in SpeakerRisks :
                 summary.risks[i].severity = summary.speaker_severity
            /\ \A i \in SpeakerRisks :
                 Rank(SeverityScale, summary.risks[i].severity)
                   <= Rank(SeverityScale, summary.speaker_severity)
  /\ "speaker_imminence" \in summary.calculated =>
       IF SpeakerRisks = {} THEN summary.speaker_imminence = "not_applicable"
       ELSE /\ \E i \in SpeakerRisks :
                 summary.risks[i].imminence = summary.speaker_imminence
            /\ \A i \in SpeakerRisks :
                 Rank(ImminenceScale, summary.risks[i].imminence)
                   <= Rank(ImminenceScale, summary.speaker_imminence)

\* a critical risk of the speaker with confidence 0.5 is left out: the
\* severity is that of the milder risk with confidence 0.6
C23_Witness ==
  /\ summary.calculated = {"speaker_severity", "speaker_imminence",
                           "any_third_party_risk"}
  /\ \E i, j \in 1..Len(summary.risks) :
       /\ summary.risks[i].subject = "self"
       /\ summary.risks[i].subject_confidence = 5
       /\ summary.risks[i].severity = "critical"
       /\ summary.risks[j].subject = "self"
       /\ summary.risks[j].subject_confidence = 6
       /\ summary.risks[j].severity = "mild"
  /\ summary.speaker_severity = "mild"
  /\ summary.speaker_imminence = "emergency"

\* C24: hasThirdPartyRisk is true exactly when some risk of the list has
\* subject 'other'.
C24_AnyOtherSubject ==
  "any_third_party_risk" \in summary.calculated =>
    (summary.any_third_party_risk
       <=> \E i \in 1..Len(summary.risks) : summary.risks[i].subject = "other")

\* C25: the result of verify is the reason of the first check that fails
\* in the order signature present, timestamp present, secret present,
\* timestamp parses, timestamp fresh, signature matches; a signature
\* mismatch is reported, and a payload is returned, only when all the
\* checks before the comparison have passed.
C25_FirstFailingCheck ==
  Verifying =>
    LET seconds == parseInt(call.timestamp.s)
        age == EpochSeconds(now) - seconds.n
    IN  IF ~Present(call.signature)
        THEN call.result = WebhookSignatureError(MissingSignature)
        ELSE IF ~Present(call.timestamp)
        THEN call.result = WebhookSignatureError(MissingTimestamp)
        ELSE IF call.secret = <<>>
        THEN call.result = WebhookSignatureError(SecretRequired)
        ELSE IF seconds.nan
        THEN call.result = WebhookSignatureError(InvalidTimestamp)
        ELSE IF WindowOfCall > 0 /\ age > WindowOfCall
        THEN call.result = WebhookSignatureError(TooOld(age, WindowOfCall))
        ELSE IF WindowOfCall > 0 /\ age < -WindowOfCall
        THEN call.result =
               WebhookSignatureError(TooFarInFuture(-age, WindowOfCall))
        ELSE \/ call.result = WebhookSignatureError(VerificationFailed)
             \/ call.result.error # "WebhookSignatureError"

\* a stale timestamp that comes with a wrong signature is reported as stale
C25_Witness ==
  /\ Verifying
  /\ Present(call.signature)
  /\ Received # DigestOfCall
  /\ call.result.error = "WebhookSignatureError"
  /\ call.result.message.text = TooOld(0, 0).text

\* the call's signature and timestamp headers are what sign returns for
\* the object o, the call's secret and a timestamp within the call's window
SignedFromObject(o) ==
  /\ call.secret # <<>>
  /\ \E t \in SignTimestamps :
       /\ Abs(EpochSeconds(now) - SignTimestamp(t, now)) <= WindowOfCall
       /\ call.signature = Str(sign(ObjectPayload(o), call.secret, t, now).signature)
       /\ call.timestamp = Str(sign(ObjectPayload(o), call.secret, t, now).timestamp)

\* C26: sign gives for an object what it gives for the object's
\* JSON.stringify text; a signature made from an object o verifies with o
\* and with that text as the payload, and does not verify with a payload
\* whose string is another one.
C26_SameCanonicalForm ==
  /\ (call.op = "sign" /\ call.payload.kind = "object") =>
       call.signed = sign(StringPayload(JSONstringify(call.payload.val)),
                          call.secret, call.signTimestamp, now)
  /\ Verifying =>
       \A o \in Objects :
         SignedFromObject(o) =>
           /\ call.payload \in {ObjectPayload(o),
                                StringPayload(JSONstringify(o))}
                => call.result = Return(o)
           /\ (IF call.payload.kind = "string" THEN call.payload.str
               ELSE JSONstringify(call.payload.val)) # JSONstringify(o)
                => call.result = WebhookSignatureError(VerificationFailed)

\* what sign gave for an object with two properties verifies with the
\* object's JSON text as the payload
C26_Witness ==
  /\ Verifying
  /\ SignedFromObject(ObjA1B2)
  /\ call.payload = StringPayload(JSONstringify(ObjA1B2))
  /\ call.result = Return(ObjA1B2)

\* the keys of the payload of the request
SentKeys(i) ==
  {ops[i].request.payload[n].k : n \in 1..Len(ops[i].request.payload)}

\* C28: the body of an evaluate request has config (the caller's, or {}),
\* the one of messages and text that the caller defined, unchanged, and
\* user_context exactly when userContext was defined; the body of a screen
\* request has the one of messages and text and config only when it was
\* given; no body has another key or a key twice.
C28_BodyKeys ==
  \A i \in OpIds :
    ops[i].sent > 0 =>
      LET o == ops[i].options
          input == IF o.messages.def THEN MessagesKey ELSE TextKey
          given == IF o.messages.def THEN ArrayValue(o.messages.items)
                   ELSE StringValue(o.text.s)
      IN  /\ Len(ops[i].request.payload) = Cardinality(SentKeys(i))
          /\ ops[i].request.body = Str(StringifyPayload(ops[i].request.payload))
          /\ SentKeys(i) \cap {MessagesKey, TextKey} = {input}
          /\ Sent(i, input) = {given}
          /\ ops[i].kind = "evaluate" =>
               /\ SentKeys(i) = {ConfigKey, input}
                    \cup (IF o.userContext.def THEN {UserContextKey} ELSE {})
               /\ Sent(i, ConfigKey) =
                    {ObjectValue(IF o.config.def THEN o.config.obj
                                 ELSE JsObject(<<>>))}
               /\ o.userContext.def
                    => Sent(i, UserContextKey) = {StringValue(o.userContext.s)}
          /\ ops[i].kind = "screen" =>
               /\ SentKeys(i) = {input}
                    \cup (IF o.config.def THEN {ConfigKey} ELSE {})
               /\ o.config.def
                    => Sent(i, ConfigKey) = {ObjectValue(o.config.obj)}

\* an evaluate call without config and with an empty userContext has sent
\* {"config":{},"text":"t","user_context":""}
C28_Witness ==
  \E i \in OpIds :
    /\ ops[i].sent > 0
    /\ ops[i].kind = "evaluate"
    /\ ~ops[i].options.config.def
    /\ ops[i].options.userContext = Str(<<>>)
    /\ ops[i].request.body =
         Str(<<"{", "\"">> \o ConfigKey \o <<"\"", ":", "{", "}", ",", "\"">>
             \o TextKey \o <<"\"", ":", "\"", "t", "\"", ",", "\"">>
             \o UserContextKey \o <<"\"", ":", "\"", "\"", "}">>)

NumberOfSeconds(s) ==
  LET k == DigitsEnd(s, 1)
      f == IF k <= Len(s) /\ s[k] = "." THEN k + 1 ELSE k
      l == DigitsEnd(s, f)
  IN  k > 1 /\ (f > k => l > f) /\ l > Len(s)

\* C30: the retryAfter of every NopeRateLimitError is absent or a number
\* (never not-a-number) of milliseconds that is not negative; it is absent
\* when the Retry-After header is absent, empty or not a number of seconds.
C30_RetryAfterWellDefined ==
  \A i \in OpIds :
    (Responded(i) /\ ops[i].outcome.error = "NopeRateLimitError") =>
      LET header == ops[i].response.retryAfter
          retryAfter == ops[i].outcome.retryAfter
      IN  /\ retryAfter.def => (~retryAfter.nan /\ retryAfter.ms >= 0)
          /\ (~header.def \/ header.s = <<>> \/ ~NumberOfSeconds(header.s))
               => ~retryAfter.def

====
